---- MODULE Spec2Model ----
(***************************************************************************)
(* Model of the DataForSEO task client (src/api/dataforseo.py):            *)
(* the retrying transport (_post / _get), task submission                  *)
(* (search_products / get_product_info) and the poll loop                  *)
(* (_wait_for_result).  One behaviour is one call of one of these          *)
(* methods against a remote API whose answers are chosen by the            *)
(* environment.                                                            *)
(*                                                                         *)
(* Time is counted in ticks of 1/Res second, so that the truncation        *)
(* int(time.time() - start) is a real conversion.  Only the difference     *)
(* time.time() - start is ever used by the code; elapsedT is that          *)
(* difference.                                                             *)
(***************************************************************************)
EXTENDS Integers, Sequences, FiniteSets, TLC

\* ------------------------------------------------------------------ bounds
Res == 2            \* clock ticks per second
MaxPending == 2     \* most not-ready answers before a ready one, direct _wait_for_result call
MaxPendingApi == 1  \* the same, call through search_products / get_product_info
Latency == 1        \* ticks an HTTP attempt takes unless it runs into the read timeout
MaxWaitArg == 2     \* largest max_wait_sec passed to a direct _wait_for_result call
MaxDepthArg == 104  \* depth arguments range over -MaxDepthArg .. MaxDepthArg
MaxKeywords == 2    \* keywords in the uploaded CSV
MaxItems == 2       \* items in a result of a response handed to the normalizer

\* ------------------------------------------------- constants of the program
PostSixAttempts == 5 + 1   \* a ceiling one too high
PostMaxAttempts == 5       \* stop_after_attempt(5)
GetMaxAttempts == 7        \* stop_after_attempt(7)
WaitMultiplier == 1        \* wait_exponential(multiplier=1, ...)
WaitMin == 1               \* wait_exponential(min=1)
WaitMax == 8               \* wait_exponential(max=8)
DefaultMaxWait == 180      \* max_wait_sec: int = 180
DefaultPollEvery == 2      \* poll_every: float = 2.0 (seconds)
DefaultDepth == 100        \* depth: int = 100
DepthLo == 10              \* max(10, ...)
DepthHi == 100             \* min(depth, 100)
ReadTimeout == 60          \* DEFAULT_TIMEOUT = (10, 60)
AppDepth == 50             \* st.number_input("Max results", ..., value=50)

PostAccepted == {20000, 20100, 40500}

\* a GET whitelist that also takes the pending-created code
GetAcceptedWithPending == {20000, 20100}

GetAccepted == {20000}

\* status codes the remote API is modelled to answer with
StatusCodes == {20000, 20100, 40500, 40000}

\* requests.RequestException and the subclasses the two HTTP steps raise:
\* session.post/get raise Timeout (read timeout), raise_for_status raises HTTPError
RequestExceptionKinds == {"Timeout", "HTTPError"}

NoErr == [kind |-> "none", code |-> 0, text |-> ""]

RequestError(k) == [kind |-> k, code |-> 0, text |-> ""]

\* raise DataForSEOError(f"API status: {status_code} {status_message}")
ApiStatusError(c) == [kind |-> "DataForSEOError", code |-> c, text |-> "API status"]

\* raise DataForSEOError("Timed out waiting for task result.")
TimeoutError == [kind |-> "DataForSEOError", code |-> 0,
                 text |-> "Timed out waiting for task result."]

\* post["tasks"][0]["id"] on a response of the given shape
LookupError(shape) ==
    [kind |-> CASE shape = "notasks" -> "KeyError"
                [] shape = "nulltasks" -> "TypeError"
                [] shape = "emptytasks" -> "IndexError"
                [] OTHER -> "KeyError",
     code |-> 0, text |-> shape]

\* a retry predicate that forgets DataForSEOError
RetryOnRequestOnly(err) == err.kind \in RequestExceptionKinds

\* retry_if_exception_type((requests.RequestException, DataForSEOError))
RetryOn(err) == err.kind \in RequestExceptionKinds \cup {"DataForSEOError"}

Max2(a, b) == IF a >= b THEN a ELSE b
Min2(a, b) == IF a <= b THEN a ELSE b

RECURSIVE Pow2(_)
Pow2(n) == IF n <= 0 THEN 1 ELSE 2 * Pow2(n - 1)

\* a backoff without the max=8 cap
WaitUncapped(n) == Max2(Max2(0, WaitMin), WaitMultiplier * Pow2(n - 1))

\* tenacity wait_exponential.__call__ for attempt number n (seconds):
\* max(max(0, min), min(multiplier * 2 ** (n - 1), max))
WaitExponential(n) ==
    Max2(Max2(0, WaitMin), Min2(WaitMultiplier * Pow2(n - 1), WaitMax))

\* a clamp without the upper limit
ClampLowOnly(d) == Max2(DepthLo, d)

\* "depth": max(10, min(depth, 100))
ClampDepth(d) == Max2(DepthLo, Min2(d, DepthHi))

\* a whole-second reading of a clock running at half speed
TruncateHalved(t) == (t \div Res) \div 2

\* elapsed = int(time.time() - start): truncation of ticks to whole seconds
Truncate(t) == t \div Res

\* reraise=False: tenacity raises RetryError around the last attempt's exception
RaiseRetryError(err) == [kind |-> "RetryError", code |-> err.code, text |-> err.text]

\* reraise=True: the exception of the last attempt is raised as it is
Reraise(err) == err

\* ------------------------------------------------------------ HTTP replies
\* What one session.post / session.get attempt meets: a read timeout
\* (http = "timeout"), an HTTP error status (http = "httperr"), or a JSON
\* body (http = "ok") with its status_code and the shape of its tasks list.
TaskIds == {"abc123", "t2"}
NoTaskId == ""

NoReply == [http |-> "none", status_code |-> 0, tasks |-> "none", id |-> "", n |-> 0]

FailedReply(h) == [http |-> h, status_code |-> 0, tasks |-> "none", id |-> "", n |-> 0]

JsonReply(c, shape, i, k) ==
    [http |-> "ok", status_code |-> c, tasks |-> shape, id |-> i, n |-> k]



\* shapes of a task_post body: no "tasks" key, "tasks": [], a first task
\* without "id", a first task with an "id"
PostShapes == {"notasks", "emptytasks", "noid", "id"}

\* shapes of a task_get body that are not ready: no "tasks" key,
\* "result": null, "result": []
PendingShapes == {"notasks", "nullresult", "emptyresult"}

\* a readiness test that takes "result": [] for a result
IsReadyIfPresent(data) == data.tasks \in {"result", "emptyresult"}

\* tasks = last.get("tasks") or []; tasks and tasks[0].get("result")
IsReady(data) == data.tasks = "result"

\* time one HTTP attempt takes, in ticks: timeout=DEFAULT_TIMEOUT
LatencyOf(reply) == IF reply.http = "timeout" THEN ReadTimeout * Res ELSE Latency

\* poll_every arguments of a direct call, in ticks
PollEverys == {1, DefaultPollEvery * Res}

\* the statements of _post after session.post: raise_for_status, r.json(),
\* the status_code test.  The error raised, or NoErr when data is returned.
PostBody(reply) ==
    IF reply.http = "timeout" THEN RequestError("Timeout")
    ELSE IF reply.http = "httperr" THEN RequestError("HTTPError")
    ELSE IF reply.status_code \notin PostAccepted THEN ApiStatusError(reply.status_code)
    ELSE NoErr

\* the statements of _get after session.get
GetBody(reply) ==
    IF reply.http = "timeout" THEN RequestError("Timeout")
    ELSE IF reply.http = "httperr" THEN RequestError("HTTPError")
    ELSE IF reply.status_code \notin GetAccepted THEN ApiStatusError(reply.status_code)
    ELSE NoErr

PostPath(e) ==
    IF e = "search_products" THEN "/merchant/google/products/task_post"
    ELSE "/merchant/google/product_info/task_post"

\* a path that leaves the task id out
GetPathNoId(e, task_id) ==
    <<IF e = "search_products" THEN "/merchant/google/products/task_get/advanced/"
      ELSE "/merchant/google/product_info/task_get/advanced/", NoTaskId>>

\* f"/merchant/google/products/task_get/advanced/{task_id}"
GetPath(e, task_id) ==
    <<IF e = "search_products" THEN "/merchant/google/products/task_get/advanced/"
      ELSE "/merchant/google/product_info/task_get/advanced/", task_id>>

NoPath == <<"", "">>
NoPayload == [op |-> "none"]
NoTick == <<-1, -1>>
NoOutcome == [kind |-> "none", err |-> NoErr, data |-> NoReply]

\* ------------------------------------------------------------------- state
VARIABLES
    pc,            \* "idle", "post" (inside _post), "get" (inside _get), "done";
                   \* "app": the script of app.py runs, no client call is active;
                   \* "new": DataForSEOClient(login, password) is about to run
    login,         \* the constructor's arguments
    password,
    kwIndex,       \* position in the CSV of the keyword being searched, 0 outside the loop
    kwStatus,      \* how far the earlier keywords' searches were when the loop moved on
    api_response,  \* the JSON value handed to parse_shopping_results / _extract_details
    normalized,    \* what the normalizer made of it
    entry,         \* the method called
    depth,         \* the depth argument of search_products
    on_tick,       \* TRUE iff an on_tick callback is supplied
    max_wait_sec, poll_every,      \* arguments of _wait_for_result (seconds, ticks)
    readyAt,       \* not-ready answers the remote task gives before a ready one; -1: never ready
    payload,       \* request body built by the method
    attempt,       \* tenacity attempt_number of the running _post / _get
    waits,         \* backoff waits (seconds) slept so far in the running _post / _get
    lastErr,       \* exception of the latest failed attempt
    reply,         \* what the latest HTTP attempt met
    task_id,       \* the id taken from the data _post returned
    get_path,      \* path handed to _wait_for_result
    lastGetPath,   \* path of the latest GET request
    elapsedT,      \* time.time() - start, in ticks
    getStart,      \* elapsedT at the moment the running call of _get began
    last,          \* the variable last of _wait_for_result
    nResp,         \* number of times _get has returned
    ticks,         \* number of on_tick calls
    lastTick,      \* arguments of the latest on_tick call
    sleeps,        \* number of time.sleep(poll_every) calls
    postCalls,     \* number of session.post calls
    getCalls,      \* number of session.get calls
    outcome        \* how the call ended: returned data or raised error

vars == <<pc, login, password, kwIndex, kwStatus, api_response, normalized, entry, depth, on_tick, max_wait_sec, poll_every, readyAt, payload,
          attempt, waits, lastErr, reply, task_id, get_path, lastGetPath,
          elapsedT, getStart,
          last, nResp, ticks, lastTick, sleeps, postCalls, getCalls, outcome>>

appState == <<login, password, kwIndex, kwStatus, api_response, normalized>>
callArgs == <<entry, depth, on_tick, appState>>
pollState == <<elapsedT, getStart, last, nResp, ticks, lastTick, sleeps, getCalls, lastGetPath>>

DepthArgs == (0 - MaxDepthArg) .. MaxDepthArg

\* the state before a client call, for the given methods and depth arguments
CallFrame(entries, depths) ==
    /\ entry \in entries
    /\ depth \in IF entry = "search_products" THEN depths ELSE {DefaultDepth}
    /\ on_tick \in BOOLEAN
    /\ max_wait_sec \in IF entry = "_wait_for_result" THEN 0 .. MaxWaitArg
                        ELSE {DefaultMaxWait}
    /\ poll_every \in IF entry = "_wait_for_result" THEN PollEverys
                      ELSE {DefaultPollEvery * Res}
    /\ readyAt = 0
    /\ payload = NoPayload
    /\ attempt = 0
    /\ waits = <<>>
    /\ lastErr = NoErr
    /\ reply = NoReply
    /\ task_id = NoTaskId
    /\ get_path = IF entry = "_wait_for_result"
                  THEN GetPath("search_products", "abc123") ELSE NoPath
    /\ lastGetPath = NoPath
    /\ elapsedT = 0
    /\ getStart = 0
    /\ last = NoReply
    /\ nResp = 0
    /\ ticks = 0
    /\ lastTick = NoTick
    /\ sleeps = 0
    /\ postCalls = 0
    /\ getCalls = 0
    /\ outcome = NoOutcome

CallInit(entries, depths) == pc = "idle" /\ CallFrame(entries, depths)

\* Python values: None, a str, a list, a dict (of which one key matters here)
Null == [kind |-> "null"]
Str(s) == [kind |-> "str", s |-> s]
List(elems) == [kind |-> "list", elems |-> elems]
EmptyDict == [kind |-> "dict", key |-> "", val |-> Null]
Dict(k, v) == [kind |-> "dict", key |-> k, val |-> v]

\* the client was constructed, no CSV loop is running, the normalizer has
\* not been called
AppIdle ==
    /\ login = Str("login")
    /\ password = Str("password")
    /\ kwIndex = 0
    /\ kwStatus = <<>>
    /\ api_response = Null
    /\ normalized = NoOutcome

InitOf(entries, depths) == CallInit(entries, depths) /\ AppIdle

Init == InitOf({"search_products", "get_product_info", "_wait_for_result"}, {DefaultDepth})

\* ----------------------------------------------------------- task submission
\* search_products, up to the call of _post
SearchProducts ==
    /\ pc = "idle" /\ entry = "search_products"
    /\ payload' = [op |-> "products", depth |-> ClampDepth(depth)]
    /\ pc' = "post"
    /\ attempt' = 1
    /\ UNCHANGED <<callArgs, pollState, max_wait_sec, poll_every, readyAt, waits,
                   lastErr, reply, task_id, get_path, postCalls, outcome>>

\* get_product_info, up to the call of _post
GetProductInfo ==
    /\ pc = "idle" /\ entry = "get_product_info"
    /\ payload' = [op |-> "product_info"]
    /\ pc' = "post"
    /\ attempt' = 1
    /\ UNCHANGED <<callArgs, pollState, max_wait_sec, poll_every, readyAt, waits,
                   lastErr, reply, task_id, get_path, postCalls, outcome>>

\* replies a POST attempt can meet
PostReplies ==
    {FailedReply(h) : h \in {"timeout", "httperr"}}
    \cup {JsonReply(c, "notasks", "", 0) : c \in StatusCodes \ PostAccepted}
    \cup {JsonReply(c, sh, "", 0) : c \in PostAccepted, sh \in PostShapes \ {"id"}}
    \cup {JsonReply(c, "id", i, 0) : c \in PostAccepted, i \in TaskIds}

\* a failed attempt of _post that tenacity retries: sleep the backoff wait
PostRetry ==
    /\ pc = "post"
    /\ \E r \in PostReplies :
        /\ PostBody(r) # NoErr
        /\ RetryOn(PostBody(r)) /\ attempt < PostMaxAttempts
        /\ reply' = r
        /\ lastErr' = PostBody(r)
    /\ waits' = Append(waits, WaitExponential(attempt))
    /\ attempt' = attempt + 1
    /\ postCalls' = postCalls + 1
    /\ UNCHANGED <<pc, callArgs, pollState, max_wait_sec, poll_every, readyAt,
                   payload, task_id, get_path, outcome>>

\* a failed attempt of _post that ends the retrying: the error leaves
\* _post and the method
PostRaise ==
    /\ pc = "post"
    /\ \E r \in PostReplies :
        /\ PostBody(r) # NoErr
        /\ ~(RetryOn(PostBody(r)) /\ attempt < PostMaxAttempts)
        /\ reply' = r
        /\ lastErr' = PostBody(r)
        /\ outcome' = [kind |-> "raise", err |-> Reraise(PostBody(r)), data |-> NoReply]
    /\ postCalls' = postCalls + 1
    /\ pc' = "done"
    /\ UNCHANGED <<callArgs, pollState, max_wait_sec, poll_every, readyAt, payload,
                   attempt, waits, task_id, get_path>>

\* _post returns data without tasks[0].id: post["tasks"][0]["id"] raises
PostReturnNoId ==
    /\ pc = "post"
    /\ \E r \in PostReplies :
        /\ PostBody(r) = NoErr
        /\ r.tasks # "id"
        /\ reply' = r
        /\ outcome' = [kind |-> "raise", err |-> LookupError(r.tasks), data |-> NoReply]
    /\ postCalls' = postCalls + 1
    /\ pc' = "done"
    /\ UNCHANGED <<callArgs, pollState, max_wait_sec, poll_every, readyAt, payload,
                   attempt, waits, lastErr, task_id, get_path>>

NeverReady == 0 - 1

\* _wait_for_result up to its first _get: start = time.time(), last = {}
StartWait(path) ==
    /\ get_path' = path
    /\ elapsedT' = 0
    /\ getStart' = 0
    /\ last' = NoReply
    /\ readyAt' \in IF entry = "_wait_for_result"
                    THEN (0 .. MaxPending) \cup {NeverReady}
                    ELSE 0 .. MaxPendingApi
    /\ attempt' = 1
    /\ waits' = <<>>
    /\ lastErr' = NoErr
    /\ pc' = "get"

\* _post returns data with tasks[0].id: the method calls _wait_for_result
PostReturn ==
    /\ pc = "post"
    /\ \E r \in PostReplies :
        /\ PostBody(r) = NoErr
        /\ r.tasks = "id"
        /\ reply' = r
        /\ task_id' = r.id
        /\ StartWait(GetPath(entry, r.id))
    /\ postCalls' = postCalls + 1
    /\ UNCHANGED <<callArgs, max_wait_sec, poll_every, payload, nResp, ticks,
                   lastTick, sleeps, getCalls, lastGetPath, outcome>>

\* a direct call of _wait_for_result
WaitForResult ==
    /\ pc = "idle" /\ entry = "_wait_for_result"
    /\ StartWait(get_path)
    /\ UNCHANGED <<callArgs, task_id, max_wait_sec, poll_every, payload, reply,
                   nResp, ticks, lastTick, sleeps, postCalls, getCalls, lastGetPath,
                   outcome>>

\* ------------------------------------------------------------------ polling
\* replies a GET attempt can meet; the body of the k-th reply with an
\* accepted status follows the remote task: ready once readyAt not-ready
\* bodies have been given
GetReplies ==
    {FailedReply(h) : h \in {"timeout", "httperr"}}
    \cup {JsonReply(c, "notasks", "", 0) : c \in StatusCodes \ GetAccepted}
    \cup {JsonReply(c, sh, "", nResp + 1) :
            c \in GetAccepted,
            sh \in IF nResp = readyAt THEN {"result"} ELSE PendingShapes}

\* a failed attempt of _get that tenacity retries: sleep the backoff wait
GetRetry ==
    /\ pc = "get"
    /\ \E r \in GetReplies :
        /\ GetBody(r) # NoErr
        /\ RetryOn(GetBody(r)) /\ attempt < GetMaxAttempts
        /\ reply' = r
        /\ lastErr' = GetBody(r)
        /\ elapsedT' = elapsedT + LatencyOf(r) + WaitExponential(attempt) * Res
    /\ waits' = Append(waits, WaitExponential(attempt))
    /\ attempt' = attempt + 1
    /\ getCalls' = getCalls + 1
    /\ lastGetPath' = get_path
    /\ UNCHANGED <<pc, callArgs, max_wait_sec, poll_every, readyAt, payload, task_id, get_path, getStart,
                   last, nResp, ticks, lastTick, sleeps, postCalls, outcome>>

\* a failed attempt of _get that ends the retrying: the error leaves _get,
\* _wait_for_result and the method
GetRaise ==
    /\ pc = "get"
    /\ \E r \in GetReplies :
        /\ GetBody(r) # NoErr
        /\ ~(RetryOn(GetBody(r)) /\ attempt < GetMaxAttempts)
        /\ reply' = r
        /\ lastErr' = GetBody(r)
        /\ elapsedT' = elapsedT + LatencyOf(r)
        /\ outcome' = [kind |-> "raise", err |-> Reraise(GetBody(r)), data |-> NoReply]
    /\ getCalls' = getCalls + 1
    /\ lastGetPath' = get_path
    /\ pc' = "done"
    /\ UNCHANGED <<callArgs, max_wait_sec, poll_every, readyAt, payload, task_id, get_path, getStart,
                   attempt, waits, last, nResp, ticks, lastTick, sleeps, postCalls>>

\* a loop that tests the deadline before it looks at the result
GetReadyDeadlineFirst ==
    /\ pc = "get"
    /\ \E r \in GetReplies :
        /\ GetBody(r) = NoErr
        /\ IsReady(r)
        /\ reply' = r
        /\ last' = r
        /\ elapsedT' = elapsedT + LatencyOf(r)
        /\ outcome' = IF elapsedT' \div Res >= max_wait_sec
                      THEN [kind |-> "raise", err |-> TimeoutError, data |-> NoReply]
                      ELSE [kind |-> "return", err |-> NoErr, data |-> r]
    /\ nResp' = nResp + 1
    /\ getCalls' = getCalls + 1
    /\ lastGetPath' = get_path
    /\ pc' = "done"
    /\ UNCHANGED <<callArgs, max_wait_sec, poll_every, readyAt, payload, task_id, get_path, getStart,
                   attempt, waits, lastErr, ticks, lastTick, sleeps, postCalls>>

\* _get returns data whose first task has a non-empty result: return last
GetReady ==
    /\ pc = "get"
    /\ \E r \in GetReplies :
        /\ GetBody(r) = NoErr
        /\ IsReady(r)
        /\ reply' = r
        /\ last' = r
        /\ elapsedT' = elapsedT + LatencyOf(r)
        /\ outcome' = [kind |-> "return", err |-> NoErr, data |-> r]
    /\ nResp' = nResp + 1
    /\ getCalls' = getCalls + 1
    /\ lastGetPath' = get_path
    /\ pc' = "done"
    /\ UNCHANGED <<callArgs, max_wait_sec, poll_every, readyAt, payload, task_id, get_path, getStart,
                   attempt, waits, lastErr, ticks, lastTick, sleeps, postCalls>>

\* a tick report placed after the deadline test: none when timing out
TickAfterDeadline(elapsed) ==
    IF on_tick /\ elapsed < max_wait_sec
    THEN /\ ticks' = ticks + 1
         /\ lastTick' = <<elapsed, max_wait_sec>>
    ELSE UNCHANGED <<ticks, lastTick>>

\* the tick report of one not-ready iteration, elapsed being the
\* truncated time: if on_tick: on_tick(elapsed, int(max_wait_sec))
TickReport(elapsed) ==
    IF on_tick
    THEN /\ ticks' = ticks + 1
         /\ lastTick' = <<elapsed, max_wait_sec>>
    ELSE UNCHANGED <<ticks, lastTick>>

\* a deadline test that lets elapsed = max_wait_sec pass
TimedOutStrict(elapsed) == elapsed > max_wait_sec

\* if elapsed >= max_wait_sec: raise
TimedOut(elapsed) == elapsed >= max_wait_sec

\* a loop that reads start = time.time() anew in every iteration
GetPendingSleepRestart ==
    /\ pc = "get"
    /\ \E r \in GetReplies :
        /\ GetBody(r) = NoErr
        /\ ~IsReady(r)
        /\ ~TimedOut(Truncate(LatencyOf(r)))
        /\ reply' = r
        /\ last' = r
        /\ TickReport(Truncate(LatencyOf(r)))
        /\ elapsedT' = elapsedT + LatencyOf(r) + poll_every
    /\ getStart' = elapsedT'
    /\ sleeps' = sleeps + 1
    /\ nResp' = nResp + 1
    /\ getCalls' = getCalls + 1
    /\ lastGetPath' = get_path
    /\ attempt' = 1
    /\ waits' = <<>>
    /\ lastErr' = NoErr
    /\ UNCHANGED <<pc, callArgs, max_wait_sec, poll_every, readyAt, payload, task_id, get_path,
                   postCalls, outcome>>

\* _get returns data that is not ready and the deadline is not reached:
\* tick, sleep poll_every, call _get again
GetPendingSleep ==
    /\ pc = "get"
    /\ \E r \in GetReplies :
        /\ GetBody(r) = NoErr
        /\ ~IsReady(r)
        /\ ~TimedOut(Truncate(elapsedT + LatencyOf(r)))
        /\ reply' = r
        /\ last' = r
        /\ TickReport(Truncate(elapsedT + LatencyOf(r)))
        /\ elapsedT' = elapsedT + LatencyOf(r) + poll_every
    /\ getStart' = elapsedT'
    /\ sleeps' = sleeps + 1
    /\ nResp' = nResp + 1
    /\ getCalls' = getCalls + 1
    /\ lastGetPath' = get_path
    /\ attempt' = 1
    /\ waits' = <<>>
    /\ lastErr' = NoErr
    /\ UNCHANGED <<pc, callArgs, max_wait_sec, poll_every, readyAt, payload, task_id, get_path,
                   postCalls, outcome>>

\* a _wait_for_result under a retry decorator of its own: the timeout error,
\* a DataForSEOError, makes the wait start over
GetPendingTimeoutRetried ==
    /\ pc = "get"
    /\ \E r \in GetReplies :
        /\ GetBody(r) = NoErr
        /\ ~IsReady(r)
        /\ TimedOut(Truncate(elapsedT + LatencyOf(r)))
        /\ reply' = r
        /\ last' = r
        /\ TickReport(Truncate(elapsedT + LatencyOf(r)))
    /\ elapsedT' = 0
    /\ getStart' = 0
    /\ lastErr' = TimeoutError
    /\ nResp' = nResp + 1
    /\ getCalls' = getCalls + 1
    /\ lastGetPath' = get_path
    /\ attempt' = 1
    /\ waits' = <<>>
    /\ UNCHANGED <<pc, callArgs, max_wait_sec, poll_every, readyAt, payload, task_id, get_path,
                   sleeps, postCalls, outcome>>

\* _get returns data that is not ready and the deadline is reached:
\* tick, then raise the timeout error
GetPendingTimeout ==
    /\ pc = "get"
    /\ \E r \in GetReplies :
        /\ GetBody(r) = NoErr
        /\ ~IsReady(r)
        /\ TimedOut(Truncate(elapsedT + LatencyOf(r)))
        /\ reply' = r
        /\ last' = r
        /\ TickReport(Truncate(elapsedT + LatencyOf(r)))
        /\ elapsedT' = elapsedT + LatencyOf(r)
    /\ outcome' = [kind |-> "raise", err |-> TimeoutError, data |-> NoReply]
    /\ nResp' = nResp + 1
    /\ getCalls' = getCalls + 1
    /\ lastGetPath' = get_path
    /\ pc' = "done"
    /\ UNCHANGED <<callArgs, max_wait_sec, poll_every, readyAt, payload, task_id, get_path, getStart,
                   attempt, waits, lastErr, sleeps, postCalls>>

Next ==
    \/ SearchProducts
    \/ GetProductInfo
    \/ PostRetry
    \/ PostRaise
    \/ PostReturnNoId
    \/ PostReturn
    \/ WaitForResult
    \/ GetRetry
    \/ GetRaise
    \/ GetReady
    \/ GetPendingSleep
    \/ GetPendingTimeout

Spec == Init /\ [][Next]_vars

\* the submission part of a search_products call, for depth arguments of
\* the whole range
DepthInit == InitOf({"search_products"}, DepthArgs)

DepthNext ==
    \/ SearchProducts
    \/ PostRetry
    \/ PostRaise
    \/ PostReturnNoId
    \/ PostReturn

DepthSpec == DepthInit /\ [][DepthNext]_vars

\* a call of _wait_for_result in which every step that can be taken is
\* taken: the clock advances, each HTTP attempt, backoff wait, sleep and
\* on_tick call returns
LiveInit == InitOf({"_wait_for_result"}, {DefaultDepth})

LiveNext ==
    \/ WaitForResult
    \/ GetRetry
    \/ GetRaise
    \/ GetReady
    \/ GetPendingSleep
    \/ GetPendingTimeout

LiveSpec == LiveInit /\ [][LiveNext]_vars /\ WF_vars(LiveNext)

\* ------------------------------------------------------------- the CSV loop
\* where the search of the current keyword stands
CallStatus ==
    CASE pc = "done" /\ outcome.kind = "return" -> "returned"
      [] pc = "done" /\ outcome.kind = "raise" -> "raised"
      [] pc = "get" -> "polling"
      [] pc = "post" -> "posting"
      [] OTHER -> "called"

\* a loop that goes on as soon as the task of the current keyword is posted
SearchPosted == pc \in {"get", "done"} /\ outcome.kind # "raise"

\* client.search_products(...) has returned to search_with_progress, which
\* returns to the loop: a call that raises ends the loop and the script
SearchFinished == pc = "done" /\ outcome.kind = "return"

\* for k in bulk["keyword"]...: search_with_progress(k, location_code, depth),
\* up to its call of client.search_products(..., on_tick=on_tick)
SearchWithProgress ==
    /\ kwIndex < MaxKeywords
    /\ \/ pc = "app" /\ kwIndex = 0
       \/ kwIndex > 0 /\ SearchFinished
    /\ kwStatus' = IF kwIndex = 0 THEN kwStatus ELSE Append(kwStatus, CallStatus)
    /\ kwIndex' = kwIndex + 1
    /\ pc' = "idle"
    /\ payload' = NoPayload
    /\ attempt' = 0
    /\ waits' = <<>>
    /\ lastErr' = NoErr
    /\ reply' = NoReply
    /\ task_id' = NoTaskId
    /\ get_path' = NoPath
    /\ lastGetPath' = NoPath
    /\ elapsedT' = 0
    /\ getStart' = 0
    /\ last' = NoReply
    /\ nResp' = 0
    /\ ticks' = 0
    /\ lastTick' = NoTick
    /\ sleeps' = 0
    /\ postCalls' = 0
    /\ getCalls' = 0
    /\ outcome' = NoOutcome
    /\ readyAt' = 0
    /\ UNCHANGED <<entry, depth, on_tick, max_wait_sec, poll_every,
                   login, password, api_response, normalized>>

\* the "Search Products" button was pressed with a CSV uploaded
BatchInit ==
    /\ pc = "app"
    /\ entry = "search_products"
    /\ depth = AppDepth
    /\ on_tick = TRUE
    /\ max_wait_sec = DefaultMaxWait
    /\ poll_every = DefaultPollEvery * Res
    /\ readyAt = 0
    /\ payload = NoPayload
    /\ attempt = 0
    /\ waits = <<>>
    /\ lastErr = NoErr
    /\ reply = NoReply
    /\ task_id = NoTaskId
    /\ get_path = NoPath
    /\ lastGetPath = NoPath
    /\ elapsedT = 0
    /\ getStart = 0
    /\ last = NoReply
    /\ nResp = 0
    /\ ticks = 0
    /\ lastTick = NoTick
    /\ sleeps = 0
    /\ postCalls = 0
    /\ getCalls = 0
    /\ outcome = NoOutcome
    /\ AppIdle

BatchNext ==
    \/ SearchWithProgress
    \/ SearchProducts
    \/ PostRetry
    \/ PostRaise
    \/ PostReturnNoId
    \/ PostReturn
    \/ GetRetry
    \/ GetRaise
    \/ GetReady
    \/ GetPendingSleep
    \/ GetPendingTimeout

BatchSpec == BatchInit /\ [][BatchNext]_vars

\* ----------------------------------------------------------- the normalizer
\* Python's truth value of a JSON value
Truthy(v) ==
    CASE v.kind = "null" -> FALSE
      [] v.kind = "list" -> v.elems # <<>>
      [] v.kind = "dict" -> v.key # ""
      [] v.kind = "str" -> v.s # ""

\* x or default
Or(v, default) == IF Truthy(v) THEN v ELSE default

\* "k" in d
HasKey(d, k) == d.key = k

\* d.get(k) of a dict d
Get(d, k) == IF d.key = k THEN d.val ELSE Null

\* None has no attribute "get"
AttributeError == [kind |-> "raise", err |-> "AttributeError"]

Accept == {"google_shopping_product", "shopping_product", "product", "google_shopping_serp"}
ItemTypes == Accept \cup {"paid"}
Item(t) == Dict("type", t)

\* pd.DataFrame(out): one row per accepted item, here its type
DataFrame(rows) == [kind |-> "DataFrame", rows |-> rows]

\* the loop of lines 24-43
RowsOf(items) ==
    LET accepted == SelectSeq(items.elems, LAMBDA it : Get(it, "type") \in Accept)
    IN  [i \in 1 .. Len(accepted) |-> Get(accepted[i], "type")]

ParseShoppingResults(r) ==
    IF ~Truthy(r) \/ ~HasKey(r, "tasks") THEN DataFrame(<<>>)
    ELSE LET tasks == Get(r, "tasks") IN
    IF ~Truthy(tasks) THEN DataFrame(<<>>)
    ELSE IF tasks.elems[1].kind # "dict" THEN AttributeError
    ELSE LET results == Or(Get(tasks.elems[1], "result"), List(<<>>)) IN
    IF ~Truthy(results) THEN DataFrame(<<>>)
    ELSE IF results.elems[1].kind # "dict" THEN AttributeError
    ELSE LET items == Or(Get(results.elems[1], "items"), List(<<>>)) IN
    DataFrame(RowsOf(items))

\* (((d or {}).get("tasks") or [{}])[0].get("result") or [{}])[0].get("items") or []
\* then items[0] if items else {}
ExtractDetails(d) ==
    LET tasks == Or(Get(Or(d, EmptyDict), "tasks"), List(<<EmptyDict>>)) IN
    IF tasks.elems[1].kind # "dict" THEN AttributeError
    ELSE LET results == Or(Get(tasks.elems[1], "result"), List(<<EmptyDict>>)) IN
    IF results.elems[1].kind # "dict" THEN AttributeError
    ELSE LET items == Or(Get(results.elems[1], "items"), List(<<>>)) IN
    IF Truthy(items) THEN items.elems[1] ELSE EmptyDict

\* the responses handed to the normalizer: each level of
\* tasks[0].result[0].items absent, null, empty or present
ItemLists == UNION {[1 .. n -> {Item(t) : t \in ItemTypes}] : n \in 0 .. MaxItems}
ItemsVals == {Null} \cup {List(l) : l \in ItemLists}
Result0s == {Null, EmptyDict} \cup {Dict("items", v) : v \in ItemsVals}
ResultVals == {Null, List(<<>>)} \cup {List(<<r>>) : r \in Result0s}
Task0s == {Null, EmptyDict} \cup {Dict("result", v) : v \in ResultVals}
TasksVals == {Null, List(<<>>)} \cup {List(<<t>>) : t \in Task0s}
Responses == {Null, EmptyDict} \cup {Dict("tasks", v) : v \in TasksVals}

\* raw, df = ..., parse_shopping_results(data)
ParseShoppingResultsCall ==
    /\ pc = "app"
    /\ normalized = NoOutcome
    /\ normalized' = [fn |-> "parse_shopping_results", out |-> ParseShoppingResults(api_response)]
    /\ UNCHANGED <<pc, login, password, kwIndex, kwStatus, api_response, entry, depth, on_tick,
                   max_wait_sec, poll_every, readyAt, payload, attempt, waits, lastErr,
                   reply, task_id, get_path, lastGetPath, elapsedT, getStart, last, nResp, ticks,
                   lastTick, sleeps, postCalls, getCalls, outcome>>

\* item = _extract_details(details)
ExtractDetailsCall ==
    /\ pc = "app"
    /\ normalized = NoOutcome
    /\ normalized' = [fn |-> "_extract_details", out |-> ExtractDetails(api_response)]
    /\ UNCHANGED <<pc, login, password, kwIndex, kwStatus, api_response, entry, depth, on_tick,
                   max_wait_sec, poll_every, readyAt, payload, attempt, waits, lastErr,
                   reply, task_id, get_path, lastGetPath, elapsedT, getStart, last, nResp, ticks,
                   lastTick, sleeps, postCalls, getCalls, outcome>>

\* the app holds a response (or None after a failed detail fetch)
NormInit ==
    /\ pc = "app"
    /\ entry = "search_products"
    /\ depth = AppDepth
    /\ on_tick = TRUE
    /\ max_wait_sec = DefaultMaxWait
    /\ poll_every = DefaultPollEvery * Res
    /\ readyAt = 0
    /\ payload = NoPayload
    /\ attempt = 0
    /\ waits = <<>>
    /\ lastErr = NoErr
    /\ reply = NoReply
    /\ task_id = NoTaskId
    /\ get_path = NoPath
    /\ lastGetPath = NoPath
    /\ elapsedT = 0
    /\ getStart = 0
    /\ last = NoReply
    /\ nResp = 0
    /\ ticks = 0
    /\ lastTick = NoTick
    /\ sleeps = 0
    /\ postCalls = 0
    /\ getCalls = 0
    /\ outcome = NoOutcome
    /\ login = Str("login")
    /\ password = Str("password")
    /\ kwIndex = 0
    /\ kwStatus = <<>>
    /\ api_response \in Responses
    /\ normalized = NoOutcome

NormNext == ParseShoppingResultsCall \/ ExtractDetailsCall

NormSpec == NormInit /\ [][NormNext]_vars

\* ---------------------------------------------------------- the constructor
ValueError == [kind |-> "ValueError", code |-> 0, text |-> "Missing DataForSEO credentials."]

\* a test that fails only when both credentials are missing
MissingBoth(l, p) == ~Truthy(l) /\ ~Truthy(p)

\* not login or not password
MissingCredentials(l, p) == ~Truthy(l) \/ ~Truthy(p)

Credentials(name) == {Null, Str(""), Str(name)}

\* DataForSEOClient(login, password)
Construct ==
    /\ pc = "new"
    /\ IF MissingCredentials(login, password)
       THEN /\ outcome' = [kind |-> "raise", err |-> ValueError, data |-> NoReply]
            /\ pc' = "done"
       ELSE /\ outcome' = outcome
            /\ pc' = "idle"
    /\ UNCHANGED <<callArgs, max_wait_sec, poll_every, readyAt, payload, attempt, waits,
                   lastErr, reply, task_id, get_path, lastGetPath, elapsedT, getStart, last,
                   nResp, ticks, lastTick, sleeps, postCalls, getCalls>>

\* the app constructs the client, then fetches the details of a product
CtorInit ==
    /\ pc = "new"
    /\ CallFrame({"get_product_info"}, {DefaultDepth})
    /\ login \in Credentials("login")
    /\ password \in Credentials("password")
    /\ kwIndex = 0
    /\ kwStatus = <<>>
    /\ api_response = Null
    /\ normalized = NoOutcome

CtorNext ==
    \/ Construct
    \/ GetProductInfo
    \/ PostRetry
    \/ PostRaise
    \/ PostReturnNoId
    \/ PostReturn
    \/ GetRetry
    \/ GetRaise
    \/ GetReady
    \/ GetPendingSleep
    \/ GetPendingTimeout

CtorSpec == CtorInit /\ [][CtorNext]_vars

\* ------------------------------------------------------------------ claims
Direct == entry = "_wait_for_result"

\* _wait_for_result was entered and has ended
WaitEnded == pc = "done" /\ getCalls > 0

Returned == outcome.kind = "return"
RaisedTimeout == outcome.kind = "raise" /\ outcome.err = TimeoutError

\* a _get of the poll loop gave up and its error left _wait_for_result
GetGaveUp == WaitEnded /\ outcome.kind = "raise" /\ outcome.err # TimeoutError

\* C1 as stated: whenever the remote task gives N not-ready answers and
\* then a ready one (and no _get gives up), _wait_for_result returns the
\* (N+1)-th answer after exactly N on_tick calls.
C1_Original ==
    (WaitEnded /\ on_tick /\ readyAt # NeverReady /\ ~GetGaveUp)
        => (Returned /\ outcome.data.n = readyAt + 1 /\ ticks = readyAt)

\* C1 amended: with the answers as above, _wait_for_result either returns
\* exactly the (N+1)-th answer (the value of last), after exactly N on_tick
\* calls, or it has raised the timeout error at one of the first N answers,
\* where the truncated elapsed time had reached max_wait_sec.
C1_PollReturnsFirstReady ==
    (WaitEnded /\ readyAt # NeverReady /\ ~GetGaveUp)
        => IF Returned
           THEN /\ outcome.data = last
                /\ IsReady(last)
                /\ last.n = readyAt + 1
                /\ nResp = readyAt + 1
                /\ ticks = IF on_tick THEN readyAt ELSE 0
           ELSE /\ RaisedTimeout
                /\ nResp <= readyAt
                /\ Truncate(elapsedT) >= max_wait_sec

C1_Witness ==
    WaitEnded /\ Returned /\ on_tick /\ readyAt = MaxPending /\ ticks = MaxPending
        /\ outcome.data.n = MaxPending + 1

\* C2: with answers that never carry a result, _wait_for_result ends (if no
\* _get gives up) by raising the timeout error; it raises it at a truncated
\* elapsed time >= max_wait_sec, the final on_tick call having reported that
\* elapsed value; and it goes on polling only after a tick below max_wait_sec.
C2_TimeoutOnceElapsed ==
    /\ (WaitEnded /\ readyAt = NeverReady /\ ~GetGaveUp) => RaisedTimeout
    /\ (pc = "done" /\ RaisedTimeout) =>
          /\ Truncate(elapsedT) >= max_wait_sec
          /\ on_tick => /\ ticks >= 1
                        /\ lastTick = <<Truncate(elapsedT), max_wait_sec>>
                        /\ lastTick[1] >= max_wait_sec
    /\ (pc = "get" /\ on_tick /\ ticks > 0) => lastTick[1] < max_wait_sec

C2_Witness ==
    /\ pc = "done" /\ RaisedTimeout /\ readyAt = NeverReady /\ on_tick
    /\ max_wait_sec = MaxWaitArg /\ ticks >= 2 /\ lastTick[1] >= max_wait_sec

InPost == postCalls > 0 /\ getCalls = 0

\* the latest HTTP attempt got a JSON body whose status_code its call type
\* does not accept
BadStatus ==
    /\ reply.http = "ok"
    /\ \/ InPost /\ reply.status_code \notin {20000, 20100, 40500}
       \/ getCalls > 0 /\ reply.status_code # 20000

\* C4 as stated: a response with a status code outside the accepted set
\* raises the API-status error and the call is made again up to the attempt
\* ceiling, the waits between successive attempts increasing, each <= 8 s.
C4_Original ==
    /\ BadStatus => lastErr = ApiStatusError(reply.status_code)
    /\ (BadStatus /\ pc = "done") => attempt = IF InPost THEN 5 ELSE 7
    /\ \A i \in 1 .. Len(waits) : waits[i] <= 8
    /\ \A i \in 1 .. Len(waits) - 1 : waits[i] < waits[i + 1]

\* C4 amended: as stated, except that the waits do not decrease: the wait
\* after attempt i is min(2^(i-1), 8) seconds, so it doubles from 1 s up to
\* 8 s and then stays at 8 s (waits 5 and 6 of a _get equal wait 4).
C4_RetryBackoff ==
    /\ BadStatus => lastErr = ApiStatusError(reply.status_code)
    /\ (BadStatus /\ pc = "done") => attempt = IF InPost THEN 5 ELSE 7
    /\ (BadStatus /\ pc # "done") => Len(waits) >= 1
    /\ pc \in {"post", "get"} => Len(waits) = attempt - 1
    /\ \A i \in 1 .. Len(waits) : waits[i] <= 8
    /\ \A i \in 1 .. Len(waits) : waits[i] = Min2(Pow2(i - 1), 8)
    /\ \A i \in 1 .. Len(waits) - 1 : waits[i] <= waits[i + 1]

C4_Witness ==
    pc = "get" /\ BadStatus /\ waits = <<1, 2, 4, 8, 8, 8>>

\* C5: when the 5th attempt of a _post fails, the call ends by raising
\* exactly the error of that attempt: same kind, same message.
C5_PostErrorUnchanged ==
    (pc = "done" /\ InPost /\ postCalls = 5 /\ PostBody(reply) # NoErr)
        => /\ outcome.kind = "raise"
           /\ outcome.err = PostBody(reply)
           /\ outcome.err.kind \in {"Timeout", "HTTPError", "DataForSEOError"}

C5_Witness ==
    /\ pc = "done" /\ InPost /\ postCalls = 5
    /\ outcome.err = ApiStatusError(40000)
    /\ entry = "get_product_info"

\* C6: a _post makes at most 5 attempts and a _get at most 7; when every
\* attempt fails exactly 5 (7) are made, the error of the last one ends the
\* call, and nothing follows: no poll iteration after a failed _post, no
\* step at all after the end.
C6_RetryCeilings ==
    /\ postCalls <= 5
    /\ pc = "post" => attempt = postCalls + 1 /\ attempt <= 5
    /\ pc = "get" => attempt <= 7
    /\ (pc = "done" /\ InPost /\ PostBody(reply) # NoErr) =>
          /\ postCalls = 5 /\ attempt = 5
          /\ outcome.kind = "raise" /\ outcome.err = lastErr
          /\ nResp = 0 /\ ticks = 0 /\ sleeps = 0
    /\ (pc = "done" /\ getCalls > 0 /\ GetBody(reply) # NoErr) =>
          /\ attempt = 7 /\ Len(waits) = 6
          /\ getCalls >= 7
          /\ outcome.kind = "raise" /\ outcome.err = lastErr
    /\ pc = "done" => ~ENABLED Next

C6_Witness ==
    /\ pc = "done" /\ entry = "search_products" /\ getCalls = 7
    /\ outcome.err.kind = "Timeout"

\* C7: when the data _post returns has no tasks[0].id, the call fails with
\* an error of the kind the transport raises (requests.RequestException or
\* DataForSEOError), after a single accepted POST and without any GET.
C7_NoIdTransportError ==
    (pc = "done" /\ InPost /\ PostBody(reply) = NoErr /\ reply.tasks # "id")
        => /\ outcome.kind = "raise"
           /\ outcome.err.kind \in RequestExceptionKinds \cup {"DataForSEOError"}
           /\ getCalls = 0

\* C8: in a search_products / get_product_info call every POST comes
\* before every GET and none after the POST that _post returned; every GET
\* goes to the path built from the id of that POST's data; and with one
\* POST, a not-ready GET and a ready GET the call returns the second GET's
\* data after exactly one tick.
C8_SubmittedOnce ==
    /\ [](~Direct /\ getCalls > 0 =>
            /\ postCalls >= 1
            /\ task_id \in TaskIds
            /\ lastGetPath[2] = task_id
            /\ lastGetPath[1] = IF entry = "search_products"
                                THEN "/merchant/google/products/task_get/advanced/"
                                ELSE "/merchant/google/product_info/task_get/advanced/")
    /\ [](~Direct /\ pc = "done" /\ Returned /\ postCalls = 1 /\ getCalls = 2 /\ nResp = 2 =>
            /\ outcome.data = reply
            /\ outcome.data.n = 2
            /\ ticks = IF on_tick THEN 1 ELSE 0)
    /\ [][postCalls' # postCalls =>
            /\ getCalls = 0 /\ getCalls' = 0
            /\ task_id = NoTaskId
            /\ (task_id' # NoTaskId => task_id' = reply'.id)]_vars
    /\ [][task_id # NoTaskId => postCalls' = postCalls /\ task_id' = task_id]_vars

C8_Witness ==
    /\ entry = "search_products" /\ pc = "done" /\ Returned /\ on_tick
    /\ postCalls = 1 /\ getCalls = 2 /\ nResp = 2 /\ ticks = 1 /\ task_id = "abc123"
    /\ lastTick = <<0, 180>> /\ sleeps = 1

\* C9: the depth put into the request body of search_products lies in
\* 10 .. 100 and equals the depth argument when that lies in 10 .. 100.
C9_DepthClamped ==
    (payload # NoPayload /\ entry = "search_products")
        => /\ 10 <= payload.depth /\ payload.depth <= 100
           /\ (10 <= depth /\ depth <= 100) => payload.depth = depth

C9_Witness ==
    /\ payload # NoPayload /\ depth = MaxDepthArg /\ payload.depth = 100
    /\ postCalls = 3

\* C10: an attempt of _post hands its response to the caller iff the
\* status_code is 20000, 20100 or 40500; an attempt of _get iff it is 20000.
\* A GET answered with 20100 or 40500 is a failed attempt (an API-status
\* error for tenacity) and never a poll answer.
C10_AcceptedCodes ==
    /\ (InPost /\ reply.http = "ok") =>
          (reply.status_code \in {20000, 20100, 40500}
             <=> \/ pc = "get" /\ task_id = reply.id
                 \/ pc = "done" /\ outcome.err = LookupError(reply.tasks))
    /\ (getCalls > 0 /\ reply.http = "ok") =>
          (reply.status_code = 20000 <=> last = reply /\ reply.n = nResp)
    /\ (getCalls > 0 /\ reply.http = "ok" /\ reply.status_code \in {20100, 40500}) =>
          /\ lastErr = ApiStatusError(reply.status_code)
          /\ last # reply
          /\ pc = "done" => outcome.err = lastErr

C10_Witness ==
    /\ pc = "get" /\ getCalls > 0 /\ reply.http = "ok" /\ reply.status_code = 40500
    /\ nResp = 1 /\ ticks = 1

\* status of the search of keyword j
StatusOf(j) == IF j = kwIndex THEN CallStatus ELSE kwStatus[j]

\* C11: in the CSV loop the searches are serialized: while the search of a
\* keyword is posting or polling, the searches of all earlier keywords have
\* returned; never are two tasks polling; and every POST or GET is issued
\* while all earlier searches have returned.
C11_BatchSerialized ==
    /\ [](/\ kwIndex \in 0 .. MaxKeywords
          /\ Len(kwStatus) = IF kwIndex = 0 THEN 0 ELSE kwIndex - 1
          /\ \A j \in 1 .. Len(kwStatus) : kwStatus[j] = "returned"
          /\ Cardinality({j \in 1 .. kwIndex : StatusOf(j) \in {"posting", "polling"}}) <= 1)
    /\ [][(postCalls' = postCalls + 1 \/ getCalls' = getCalls + 1) =>
            /\ kwIndex' = kwIndex
            /\ \A j \in 1 .. kwIndex - 1 : kwStatus[j] \in {"returned", "raised"}]_vars

C11_Witness ==
    /\ kwIndex = MaxKeywords /\ pc = "get" /\ nResp = 1
    /\ kwStatus[1] = "returned"

\* the items of tasks[0].result[0].items, <<>> when a level is absent, null
\* or empty
ItemsAt(r) ==
    IF r.kind # "dict" \/ r.key # "tasks" \/ r.val.kind # "list" \/ r.val.elems = <<>> THEN <<>>
    ELSE LET t == r.val.elems[1] IN
    IF t.kind # "dict" \/ t.key # "result" \/ t.val.kind # "list" \/ t.val.elems = <<>> THEN <<>>
    ELSE LET r0 == t.val.elems[1] IN
    IF r0.kind # "dict" \/ r0.key # "items" \/ r0.val.kind # "list" THEN <<>>
    ELSE r0.val.elems

EmptyResult == {DataFrame(<<>>), EmptyDict}

\* C12: for every response in which a level of tasks[0].result[0].items is
\* absent, null or empty, parse_shopping_results and _extract_details give
\* an empty result and do not raise.
C12_MissingLevelIsEmpty ==
    (normalized # NoOutcome /\ ItemsAt(api_response) = <<>>) =>
        normalized.out \in EmptyResult

\* C13: when login or password is None or empty, the constructor raises the
\* configuration error at once: no POST or GET was or will be made, nothing
\* was retried or waited for, and no method of a client ever runs.
C13_MissingCredentialsFailFast ==
    /\ pc = "new" => postCalls = 0 /\ getCalls = 0 /\ outcome = NoOutcome
    /\ (login \in {Null, Str("")} \/ password \in {Null, Str("")}) =>
         /\ pc \in {"new", "done"}
         /\ postCalls = 0 /\ getCalls = 0
         /\ attempt = 0 /\ waits = <<>> /\ elapsedT = 0
         /\ pc = "done" =>
               /\ outcome = [kind |-> "raise", err |-> ValueError, data |-> NoReply]
               /\ ~ENABLED CtorNext
    /\ (pc = "done" /\ outcome.kind = "raise" /\ outcome.err = ValueError) =>
         (login \in {Null, Str("")} \/ password \in {Null, Str("")})

C13_Witness ==
    /\ pc = "done" /\ outcome.err = ValueError
    /\ login = Str("login") /\ password = Str("")

\* the not-ready responses _get has returned so far
NotReadySoFar == IF pc = "done" /\ Returned THEN nResp - 1 ELSE nResp

\* C14: every not-ready response is reported to on_tick before the deadline
\* is tested, with the truncated elapsed time the test then uses: the
\* timeout is raised exactly when that elapsed time is at least max_wait_sec.
\* So at every sleep and at the timeout the number of on_tick calls equals
\* the number of not-ready responses so far.
C14_TickThenDeadline ==
    /\ ticks = IF on_tick THEN NotReadySoFar ELSE 0
    /\ (lastTick # NoTick) <=> (on_tick /\ NotReadySoFar > 0)
    /\ lastTick # NoTick => lastTick[2] = max_wait_sec
    /\ RaisedTimeout =>
          /\ sleeps = nResp - 1
          /\ Truncate(elapsedT) >= max_wait_sec
          /\ on_tick => lastTick[1] = Truncate(elapsedT)
    /\ ~RaisedTimeout =>
          /\ sleeps = NotReadySoFar
          /\ lastTick # NoTick => lastTick[1] < max_wait_sec
    /\ (pc = "get" /\ nResp > 0 /\ attempt = 1) =>
          /\ Truncate(elapsedT - poll_every) < max_wait_sec
          /\ on_tick => lastTick[1] = Truncate(elapsedT - poll_every)

C14_Witness ==
    /\ RaisedTimeout /\ on_tick
    /\ ticks = 2 /\ sleeps = 1 /\ nResp = 2
    /\ lastTick[1] >= max_wait_sec

\* C15: the timeout error is fatal. No retry wrapper ever handles it; once
\* the deadline test has seen elapsed >= max_wait_sec the call has ended
\* with the timeout error as its outcome, also when entered through
\* search_products or get_product_info; and after that no GET, POST,
\* on_tick call or sleep follows.
C15_TimeoutIsFatal ==
    /\ [](/\ lastErr # TimeoutError
          /\ (lastTick # NoTick /\ lastTick[1] >= max_wait_sec) => RaisedTimeout
          /\ RaisedTimeout =>
                /\ pc = "done"
                /\ outcome = [kind |-> "raise", err |-> TimeoutError, data |-> NoReply]
                /\ Truncate(elapsedT) >= max_wait_sec
                /\ ~ENABLED Next)
    /\ [][RaisedTimeout =>
            /\ getCalls' = getCalls /\ postCalls' = postCalls
            /\ ticks' = ticks /\ sleeps' = sleeps /\ elapsedT' = elapsedT]_vars

C15_Witness ==
    /\ RaisedTimeout /\ entry = "search_products"
    /\ postCalls = 1 /\ on_tick /\ ticks = nResp /\ nResp >= 1

\* C16: every call of _wait_for_result ends, by a return or a raise. Each
\* sleep is preceded by a deadline test that passed and advances the clock
\* by at least poll_every plus one request, so the sleeps are bounded by
\* max_wait_sec; each _get makes at most GetMaxAttempts attempts.
C16_WaitTerminates ==
    /\ [](/\ sleeps >= 1 =>
                (sleeps - 1) * (poll_every + Latency) + Latency < max_wait_sec * Res
          /\ elapsedT >= sleeps * (poll_every + Latency)
          /\ attempt <= GetMaxAttempts
          /\ getCalls <= GetMaxAttempts * (sleeps + 1))
    /\ (pc = "idle" ~> pc = "done")
    /\ [](pc = "get" => <>(pc = "done"))

C16_Witness ==
    /\ pc = "done" /\ RaisedTimeout /\ readyAt = NeverReady
    /\ sleeps = 1 /\ max_wait_sec = MaxWaitArg

\* C17: when the timeout error is raised, the time since start exceeds
\* max_wait_sec by at most poll_every plus the time the last call of _get
\* took (its attempts and backoff waits).
C17_TimeoutOvershoot ==
    /\ getStart <= elapsedT
    /\ pc = "get" => getStart <= max_wait_sec * Res + poll_every
    /\ RaisedTimeout =>
          /\ elapsedT >= max_wait_sec * Res
          /\ elapsedT - max_wait_sec * Res <= poll_every + (elapsedT - getStart)
          /\ sleeps > 0 =>
                elapsedT - max_wait_sec * Res < poll_every + (elapsedT - getStart)

C17_Witness ==
    /\ RaisedTimeout /\ sleeps = 1 /\ nResp = 2
    /\ elapsedT - getStart > ReadTimeout * Res
    /\ elapsedT - max_wait_sec * Res > poll_every + ReadTimeout * Res

\* C18: a ready response is returned whatever the elapsed time: the call
\* that received it ends by returning it, with no on_tick call, deadline
\* test or sleep for it and nothing after it. The timeout is raised on
\* not-ready responses only; with max_wait_sec = 0 it is raised on the first
\* response if that is not ready, after one status check and no sleep.
C18_ReadyBeforeDeadline ==
    /\ (pc = "done" /\ Returned) =>
          /\ nResp = readyAt + 1
          /\ IsReady(last) /\ last = reply /\ outcome.data = last /\ last.n = nResp
          /\ sleeps = nResp - 1
          /\ ticks = IF on_tick THEN nResp - 1 ELSE 0
          /\ lastTick # NoTick => lastTick[1] < max_wait_sec
          /\ ~ENABLED Next
    /\ (WaitEnded /\ nResp = readyAt + 1) => (Returned \/ GetGaveUp)
    /\ RaisedTimeout => ~IsReady(last) /\ (readyAt = NeverReady \/ nResp <= readyAt)
    /\ (max_wait_sec = 0 /\ WaitEnded) =>
          /\ nResp <= 1 /\ sleeps = 0
          /\ RaisedTimeout => nResp = 1 /\ ticks = (IF on_tick THEN 1 ELSE 0)
          /\ Returned => nResp = 1 /\ readyAt = 0 /\ ticks = 0

C18_Witness ==
    /\ pc = "done" /\ Returned /\ sleeps = 1
    /\ max_wait_sec > 0 /\ Truncate(elapsedT) > max_wait_sec

====
